---- MODULE Spec2Model ----
(***************************************************************************)
(* Model of src/Snapping.py: line densification (add_vertices_to_line),    *)
(* per-vertex snapping (snap_to_nearest_edge), the fallback wrapper        *)
(* (safe_snap_to_nearest_edge) and the batch driver (main).                *)
(*                                                                         *)
(* Coordinates are exact rationals <<n, d>> (d > 0, lowest terms); input   *)
(* coordinates are integers.  Lengths are compared through their squares,  *)
(* so no square root is ever taken.  A point is <<x, y>>, a line is the    *)
(* sequence of its points (its .coords), a geometry is a record            *)
(* [kind, coords].                                                         *)
(***************************************************************************)
EXTENDS Integers, Sequences, FiniteSets, TLC

VARIABLES
    features,            \* feature_lines_gdf.geometry: sequence of edges
    lines,               \* lines_gdf.geometry as read: sequence of lines
    max_snap_distance,   \* parameter of snap_to_nearest_edge (rational)
    max_segment_length,  \* parameter of snap_to_nearest_edge (rational)
    pc,                  \* position of main, or "call" for a direct call
    idx,                 \* rtree index: set of <<id, bounds>> entries
    cur,                 \* 1-based position of the line being processed
    state,               \* per-line position inside safe_snap_to_nearest_edge
    line_with_vertices,  \* local of snap_to_nearest_edge
    snapped_points,      \* local of snap_to_nearest_edge
    snapped_lines,       \* results of safe_snap_to_nearest_edge, in order
    geometry,            \* lines_gdf['geometry'] after line 120
    is_valid,            \* lines_gdf['is_valid']
    output,              \* rows written by to_file, <<>> until saved
    log,                 \* logging records, in order
    attempts             \* per line: times the snapping loop was entered

vars == <<features, lines, max_snap_distance, max_segment_length, pc, idx, cur,
          state, line_with_vertices, snapped_points, snapped_lines, geometry,
          is_valid, output, log, attempts>>

----------------------------------------------------------------------------
(* Exact rational arithmetic.                                              *)

\* F applied to the value of e, e being evaluated once.
Eval(F(_), e) == CHOOSE r \in {F(x) : x \in {e}} : TRUE

Abs(n) == IF n < 0 THEN -n ELSE n

RECURSIVE GCD(_, _)
GCD(a, b) ==
    IF b = 0 THEN a ELSE Eval(LAMBDA x : GCD(x[1], x[2]), <<b, a % b>>)

\* n / d in lowest terms, for d > 0.
Rat(n, d) ==
    Eval(LAMBDA x : <<x[1] \div x[3], x[2] \div x[3]>>, <<n, d, GCD(Abs(n), d)>>)

R(n) == <<n, 1>>

RAdd(a, b) ==
    Eval(LAMBDA x : Rat(x[1][1] * x[2][2] + x[2][1] * x[1][2], x[1][2] * x[2][2]),
         <<a, b>>)
RSub(a, b) ==
    Eval(LAMBDA x : Rat(x[1][1] * x[2][2] - x[2][1] * x[1][2], x[1][2] * x[2][2]),
         <<a, b>>)
RMul(a, b) ==
    Eval(LAMBDA x : Rat(x[1][1] * x[2][1], x[1][2] * x[2][2]), <<a, b>>)
\* a / b, for b # 0.
RDiv(a, b) ==
    Eval(LAMBDA x : IF x[2][1] > 0
                    THEN Rat(x[1][1] * x[2][2], x[1][2] * x[2][1])
                    ELSE Rat(-(x[1][1] * x[2][2]), x[1][2] * (-x[2][1])),
         <<a, b>>)
RLe(a, b)  == Eval(LAMBDA x : x[1][1] * x[2][2] <= x[2][1] * x[1][2], <<a, b>>)
RLt(a, b)  == Eval(LAMBDA x : x[1][1] * x[2][2] < x[2][1] * x[1][2], <<a, b>>)
RSq(a)     == Eval(LAMBDA x : RMul(x, x), a)
RMin(a, b) == Eval(LAMBDA x : IF RLe(x[1], x[2]) THEN x[1] ELSE x[2], <<a, b>>)
RMax(a, b) == Eval(LAMBDA x : IF RLe(x[1], x[2]) THEN x[2] ELSE x[1], <<a, b>>)

P(x, y) == <<R(x), R(y)>>

\* Squared Euclidean distance of two points.
Dist2(p, q) ==
    Eval(LAMBDA x : RAdd(RSq(RSub(x[1][1], x[2][1])), RSq(RSub(x[1][2], x[2][2]))),
         <<p, q>>)

----------------------------------------------------------------------------
(* add_vertices_to_line                                                    *)

\* segment_length > max_segment_length, both non-negative.
SegmentExceeds(start, end, m) == RLt(RSq(m), Dist2(start, end))

\* The largest n in lo..hi-1 with n * n <= x, given lo * lo <= x < hi * hi.
RECURSIVE ISqrt(_, _, _)
ISqrt(x, lo, hi) ==
    IF hi - lo <= 1 THEN lo
    ELSE Eval(LAMBDA a : IF a[3] * a[3] <= a[1]
                         THEN ISqrt(a[1], a[3], a[2])
                         ELSE ISqrt(a[1], a[4], a[3]),
              <<x, hi, (lo + hi) \div 2, lo>>)

\* int(segment_length // max_segment_length) from the squared length: the
\* largest n with n * m <= segment_length, which is the integer square
\* root of the integer part of segment_length^2 / m^2.
FloorQuot(len2, m) ==
    Eval(LAMBDA q : ISqrt(q[1] \div q[2], 0, (q[1] \div q[2]) + 1),
         RDiv(len2, RSq(m)))

\* num_new_points with one point too few (an off-by-one on the count).
num_new_points_less(start, end, m) == FloorQuot(Dist2(start, end), m) - 1

num_new_points(start, end, m) == FloorQuot(Dist2(start, end), m)

\* new_point with the fraction j / num_new_points (the + 1 forgotten).
new_point_over_n(start, end, j, n) ==
    LET f == Rat(j, n)
    IN  <<RAdd(start[1], RMul(RSub(end[1], start[1]), f)),
          RAdd(start[2], RMul(RSub(end[2], start[2]), f))>>

\* start + (end - start) * (j / (num_new_points + 1))
new_point(start, end, j, n) ==
    LET f == Rat(j, n + 1)
    IN  <<RAdd(start[1], RMul(RSub(end[1], start[1]), f)),
          RAdd(start[2], RMul(RSub(end[2], start[2]), f))>>

\* SegmentCoords that appends the end point only to an undivided segment.
SegmentCoords_drop_end(start, end, m) ==
    IF SegmentExceeds(start, end, m)
    THEN LET n == num_new_points(start, end, m)
         IN  [j \in 1..n |-> new_point(start, end, j, n)]
    ELSE <<end>>

\* What one iteration of the loop over segments appends to new_coords.
SegmentCoords(start, end, m) ==
    IF SegmentExceeds(start, end, m)
    THEN LET n == num_new_points(start, end, m)
         IN  [j \in 1..n |-> new_point(start, end, j, n)] \o <<end>>
    ELSE <<end>>

RECURSIVE DensifyFrom(_, _, _, _)
DensifyFrom(coords, m, i, new_coords) ==
    IF i > Len(coords)
    THEN new_coords
    ELSE DensifyFrom(coords, m, i + 1,
                     new_coords \o SegmentCoords(coords[i - 1], coords[i], m))

\* coords[0] raises IndexError on a line without points.
AddVerticesRaises(coords) == Len(coords) = 0

add_vertices_to_line(coords, m) == DensifyFrom(coords, m, 2, <<coords[1]>>)

----------------------------------------------------------------------------
(* rtree index and shapely helpers used by snap_to_nearest_edge and main   *)

RECURSIVE FoldMin(_, _, _, _)
FoldMin(coords, k, i, acc) ==
    IF i > Len(coords) THEN acc
    ELSE FoldMin(coords, k, i + 1, RMin(acc, coords[i][k]))

RECURSIVE FoldMax(_, _, _, _)
FoldMax(coords, k, i, acc) ==
    IF i > Len(coords) THEN acc
    ELSE FoldMax(coords, k, i + 1, RMax(acc, coords[i][k]))

\* line.bounds: <<minx, miny, maxx, maxy>> of a line with at least one point.
bounds(coords) ==
    <<FoldMin(coords, 1, 2, coords[1][1]), FoldMin(coords, 2, 2, coords[1][2]),
      FoldMax(coords, 1, 2, coords[1][1]), FoldMax(coords, 2, 2, coords[1][2])>>

\* The index after the insert loop: ids are enumerate's, counted from 0.
BuildIdx(feats) == {<<i - 1, bounds(feats[i])>> : i \in 1..Len(feats)}

\* Squared distance of a point (its degenerate bounds) to a box.
BoxDist2(p, b) ==
    LET dx == RMax(R(0), RMax(RSub(b[1], p[1]), RSub(p[1], b[3])))
        dy == RMax(R(0), RMax(RSub(b[2], p[2]), RSub(p[2], b[4])))
    IN  RAdd(RSq(dx), RSq(dy))

\* idx.nearest(point.bounds, 1): the ids whose box is nearest; entries at
\* equal box distance are all returned, in an order rtree does not specify.
IndexNearest(index, p) ==
    {e[1] : e \in {e \in index :
                     \A f \in index : RLe(BoxDist2(p, e[2]), BoxDist2(p, f[2]))}}

\* Nearest point of segment a-b to p: the projection, clamped to the ends.
ProjectOnSegment(p, a, b) ==
    LET len2 == Dist2(a, b)
        dot  == RAdd(RMul(RSub(p[1], a[1]), RSub(b[1], a[1])),
                     RMul(RSub(p[2], a[2]), RSub(b[2], a[2])))
    IN  IF len2 = R(0) THEN a
        ELSE LET t == RMax(R(0), RMin(R(1), RDiv(dot, len2)))
             IN  <<RAdd(a[1], RMul(t, RSub(b[1], a[1]))),
                   RAdd(a[2], RMul(t, RSub(b[2], a[2])))>>

RECURSIVE NearestOnLine(_, _, _, _)
NearestOnLine(p, coords, i, best) ==
    IF i > Len(coords) THEN best
    ELSE LET q == ProjectOnSegment(p, coords[i - 1], coords[i])
         IN  NearestOnLine(p, coords, i + 1,
                           IF RLt(Dist2(p, q), Dist2(p, best)) THEN q ELSE best)

\* nearest_points(shapely_point, feature_line)[1]
nearest_point(p, coords) ==
    NearestOnLine(p, coords, 3, ProjectOnSegment(p, coords[1], coords[2]))

\* feature_lines_gdf.geometry.iloc[j]
iloc(feats, j) == feats[j + 1]

\* WithinSnapDistance without the threshold (only distance < min_dist kept).
WithinSnapDistance_ungated(distance2, d) == TRUE

\* distance <= max_snap_distance, on squared distances.
WithinSnapDistance(distance2, d) == RLe(distance2, RSq(d))

\* The nearest points of the edges the index returned for p.
Candidates(p, feats, index) ==
    {nearest_point(p, iloc(feats, j)) : j \in IndexNearest(index, p)}

\* The values nearest_geom can end the loop over the candidates with, as a
\* set: the accepted candidate found first among those at least distance,
\* for every order of examination; {} stands for None.
nearest_geom(p, feats, index, d) ==
    LET acc == {q \in Candidates(p, feats, index) :
                  WithinSnapDistance(Dist2(p, q), d)}
    IN  {q \in acc : \A r \in acc : RLe(Dist2(p, q), Dist2(p, r))}

\* nearest_geom if nearest_geom else shapely_point
SnapChoices(p, feats, index, d) ==
    LET g == nearest_geom(p, feats, index, d)
    IN  IF g = {} THEN {p} ELSE g

\* LineString(snapped_points) if len(snapped_points) > 1 else line
SnapReturn(line, points) == IF Len(points) > 1 THEN points ELSE line

LineString(coords) == [kind |-> "LineString", coords |-> coords]

\* .is_empty
IsEmpty(g) == Len(g.coords) = 0

\* .is_valid: an empty geometry is valid; a LineString needs two distinct
\* points.
IsValid(g) ==
    \/ IsEmpty(g)
    \/ /\ g.kind = "LineString"
       /\ \E i \in 1..Len(g.coords) : g.coords[i] # g.coords[1]

\* the test of safe_snap_to_nearest_edge that rejects a candidate
Rejected(snapped_line) ==
    IsEmpty(LineString(snapped_line)) \/ ~IsValid(LineString(snapped_line))

\* .buffer(0): the zero-width buffer of a line is the empty polygon.
Buffer0(g) == [kind |-> "Polygon", coords |-> <<>>]

----------------------------------------------------------------------------
(* Inputs                                                                  *)

\* Signature defaults of snap_to_nearest_edge and add_vertices_to_line.
DefaultMaxSnapDistance == 15
DefaultMaxSegmentLength == 10

MaxBatch == 2        \* lines in a batch
MaxFeatures == 2     \* edges in a feature set
MaxX == 2            \* x steps of the grid the densified lines are drawn on
MaxLinePts == 3      \* points of a line handed to add_vertices_to_line
MaxSegLen == 3       \* largest small max_segment_length tried
MaxSnapK == 3        \* max_snap_distance ranges over 0, 5, .. 5 * MaxSnapK

SeqsUpTo(S, lo, hi) == UNION {[1..n -> S] : n \in lo..hi}

\* Reference edges: a horizontal one, an L-shaped one and a diagonal one.
EdgeH == <<P(0, 0), P(40, 0)>>
EdgeL == <<P(60, 0), P(60, 30), P(90, 30)>>
EdgeD == <<P(0, 10), P(30, 40)>>
Edges == {EdgeH, EdgeL, EdgeD}
FeatureSets == SeqsUpTo(Edges, 0, MaxFeatures)

\* Feature sets of a batch run: none, then one edge more at a time.
AllEdges == <<EdgeH, EdgeD, EdgeL>>
BatchFeatureSets ==
    {SubSeq(AllEdges, 1, n) : n \in 0..(IF MaxFeatures < 3 THEN MaxFeatures ELSE 3)}

\* Input lines: without points, with one distinct point, along an edge,
\* across an edge, past the end of an edge, and far from every edge.
LineEmpty  == <<>>
LinePoint  == <<P(5, 5), P(5, 5)>>
LineAlong  == <<P(0, 5), P(30, 5)>>
LineAcross == <<P(10, 2), P(10, 8)>>
LinePast   == <<P(45, 0), P(50, 0)>>
LineFar    == <<P(0, 200), P(6, 200)>>
BatchLines == {LineEmpty, LinePoint, LineAlong, LineAcross}
Batches == SeqsUpTo(BatchLines, 0, MaxBatch)

\* Arguments of a direct call of snap_to_nearest_edge.
SnapLines == {LineEmpty, LinePoint, LineAlong, LineAcross, LinePast, LineFar,
              <<P(45, 0), P(10, 2)>>, <<P(70, 20), P(20, 20), P(25, 40)>>}
SnapDistances == {R(5 * k) : k \in 0..MaxSnapK}

\* Arguments of a direct call of add_vertices_to_line.
DensifyPts == {P(2 * i, 3 * j) : i \in 0..MaxX, j \in 0..1}
Scenario1Line == <<P(0, 0), P(100, 0)>>
DensifyLines == SeqsUpTo(DensifyPts, 2, MaxLinePts) \cup {LineEmpty, Scenario1Line}
SegLengths == {Rat(1, 2), R(DefaultMaxSegmentLength)} \cup {R(k) : k \in 1..MaxSegLen}

----------------------------------------------------------------------------
(* State                                                                   *)

Fresh(ls, feats, d, m, at) ==
    /\ lines = ls
    /\ features = feats
    /\ max_snap_distance = d
    /\ max_segment_length = m
    /\ pc = at
    /\ state = [i \in 1..Len(ls) |-> "Pending"]
    /\ attempts = [i \in 1..Len(ls) |-> 0]
    /\ line_with_vertices = <<>>
    /\ snapped_points = <<>>
    /\ snapped_lines = <<>>
    /\ geometry = <<>>
    /\ is_valid = <<>>
    /\ output = <<>>
    /\ log = <<>>

\* main before it reads its inputs; safe_snap_to_nearest_edge passes no
\* thresholds, so the defaults apply.
Init ==
    \E ls \in Batches, feats \in BatchFeatureSets :
        /\ Fresh(ls, feats, R(DefaultMaxSnapDistance), R(DefaultMaxSegmentLength), "read")
        /\ idx = {}
        /\ cur = 0

\* A direct call snap_to_nearest_edge(line, feature_lines_gdf, idx, d, m).
InitSnap ==
    \E l \in SnapLines, feats \in FeatureSets, d \in SnapDistances :
        /\ Fresh(<<l>>, feats, d, R(DefaultMaxSegmentLength), "call")
        /\ idx = BuildIdx(feats)
        /\ cur = 1

\* A direct call add_vertices_to_line(line, m).
InitDensify ==
    \E l \in DensifyLines, m \in SegLengths :
        /\ Fresh(<<l>>, <<>>, R(DefaultMaxSnapDistance), m, "call")
        /\ idx = {}
        /\ cur = 1

----------------------------------------------------------------------------
(* main                                                                    *)

\* FeatureTypeRaises for a type test that never raises (no iloc[0]).
FeatureTypeRaises_never(feats) == FALSE

\* features_gdf.geometry.type.iloc[0] raises IndexError on an empty frame.
FeatureTypeRaises(feats) == Len(feats) = 0

\* Lines 102-111, and the handler of line 134 when line 110 raises.
ReadInputs ==
    /\ pc = "read"
    /\ IF FeatureTypeRaises(features)
       THEN /\ pc' = "failed"
            /\ log' = Append(log, "Processing failed")
       ELSE /\ pc' = "index"
            /\ log' = log
    /\ UNCHANGED <<features, lines, max_snap_distance, max_segment_length, idx,
                   cur, state, line_with_vertices, snapped_points,
                   snapped_lines, geometry, is_valid, output, attempts>>

\* Lines 114-116.
BuildIndex ==
    /\ pc = "index"
    /\ idx' = BuildIdx(features)
    /\ pc' = "snap"
    /\ cur' = 1
    /\ UNCHANGED <<features, lines, max_snap_distance, max_segment_length,
                   state, line_with_vertices, snapped_points, snapped_lines,
                   geometry, is_valid, output, log, attempts>>

Running == pc = "snap" /\ cur <= Len(lines)

\* OnFailure that leaves the line to be tried again.
OnFailure_retry(i) == [state EXCEPT ![i] = "Pending"]

\* The state a line is left in by the except clause of the wrapper.
OnFailure(i) == [state EXCEPT ![i] = "Fallback"]

\* Line 66 under the try of safe_snap_to_nearest_edge: the densified line,
\* or the except clause (log, return line) when add_vertices_to_line raises.
Densify ==
    /\ Running
    /\ state[cur] = "Pending"
    /\ IF AddVerticesRaises(lines[cur])
       THEN /\ state' = OnFailure(cur)
            /\ log' = Append(log, "Error snapping line")
            /\ snapped_lines' = Append(snapped_lines, lines[cur])
            /\ cur' = cur + 1
            /\ line_with_vertices' = <<>>
       ELSE /\ state' = [state EXCEPT ![cur] = "Densified"]
            /\ line_with_vertices' =
                   add_vertices_to_line(lines[cur], max_segment_length)
            /\ UNCHANGED <<log, snapped_lines, cur>>
    /\ UNCHANGED <<features, lines, max_snap_distance, max_segment_length, pc,
                   idx, snapped_points, geometry, is_valid, output, attempts>>

\* Line 67: the loop over the vertices is entered.
BeginSnapping ==
    /\ pc \in {"snap", "call"}
    /\ cur <= Len(lines)
    /\ state[cur] = "Densified"
    /\ state' = [state EXCEPT ![cur] = "Snapping"]
    /\ attempts' = [attempts EXCEPT ![cur] = @ + 1]
    /\ snapped_points' = <<>>
    /\ UNCHANGED <<features, lines, max_snap_distance, max_segment_length, pc,
                   idx, cur, line_with_vertices, snapped_lines, geometry,
                   is_valid, output, log>>

\* Lines 69-83: one vertex.
SnapVertex ==
    /\ pc \in {"snap", "call"}
    /\ cur <= Len(lines)
    /\ state[cur] = "Snapping"
    /\ Len(snapped_points) < Len(line_with_vertices)
    /\ \E q \in SnapChoices(line_with_vertices[Len(snapped_points) + 1],
                            features, idx, max_snap_distance) :
           snapped_points' = Append(snapped_points, q)
    /\ UNCHANGED <<features, lines, max_snap_distance, max_segment_length, pc,
                   idx, cur, state, line_with_vertices, snapped_lines,
                   geometry, is_valid, output, log, attempts>>

\* Accept without the is_empty / is_valid test.
Accept_unchecked(line, snapped_line) == snapped_line

\* What safe_snap_to_nearest_edge returns for a candidate: lines 91-93.
Accept(line, snapped_line) == IF Rejected(snapped_line) THEN line ELSE snapped_line

\* Line 85 and lines 91-93: the candidate is returned, or the line.
Finish ==
    /\ Running
    /\ state[cur] = "Snapping"
    /\ Len(snapped_points) = Len(line_with_vertices)
    /\ LET snapped_line == SnapReturn(lines[cur], snapped_points)
       IN  /\ state' = [state EXCEPT ![cur] =
                           IF Rejected(snapped_line) THEN "Fallback" ELSE "Valid"]
           /\ snapped_lines' =
                  Append(snapped_lines, Accept(lines[cur], snapped_line))
    /\ cur' = cur + 1
    /\ line_with_vertices' = <<>>
    /\ snapped_points' = <<>>
    /\ UNCHANGED <<features, lines, max_snap_distance, max_segment_length, pc,
                   idx, geometry, is_valid, output, log, attempts>>

\* Lines 119-120, once apply has gone through every line.
AssignGeometry ==
    /\ pc = "snap"
    /\ cur > Len(lines)
    /\ geometry' = [i \in 1..Len(lines) |-> LineString(snapped_lines[i])]
    /\ pc' = "validate"
    /\ UNCHANGED <<features, lines, max_snap_distance, max_segment_length, idx,
                   cur, state, line_with_vertices, snapped_points,
                   snapped_lines, is_valid, output, log, attempts>>

\* lines_gdf['geometry'].buffer(0), applied to the whole column.
FixGeometries(geoms) == [i \in 1..Len(geoms) |-> Buffer0(geoms[i])]

\* Lines 123-127.
Validate ==
    /\ pc = "validate"
    /\ IF \A i \in 1..Len(geometry) : IsValid(geometry[i])
       THEN /\ is_valid' = [i \in 1..Len(geometry) |-> IsValid(geometry[i])]
            /\ UNCHANGED <<geometry, log>>
       ELSE /\ log' = Append(log, "invalid geometries; fixing...")
            /\ geometry' = FixGeometries(geometry)
            /\ is_valid' = [i \in 1..Len(geometry) |-> IsValid(geometry'[i])]
    /\ pc' = "save"
    /\ UNCHANGED <<features, lines, max_snap_distance, max_segment_length, idx,
                   cur, state, line_with_vertices, snapped_points,
                   snapped_lines, output, attempts>>

\* Lines 130-132.
Save ==
    /\ pc = "save"
    /\ output' = [i \in 1..Len(geometry) |->
                     [geometry |-> geometry[i], is_valid |-> is_valid[i]]]
    /\ log' = Append(log, "Snapped lines saved successfully.")
    /\ pc' = "done"
    /\ UNCHANGED <<features, lines, max_snap_distance, max_segment_length, idx,
                   cur, state, line_with_vertices, snapped_points,
                   snapped_lines, geometry, is_valid, attempts>>

----------------------------------------------------------------------------
(* Direct calls                                                            *)

\* Line 66 of a direct call: the exception of add_vertices_to_line leaves
\* the call.
CallDensify ==
    /\ pc = "call"
    /\ state[cur] = "Pending"
    /\ IF AddVerticesRaises(lines[cur])
       THEN /\ pc' = "raised"
            /\ UNCHANGED <<state, line_with_vertices>>
       ELSE /\ state' = [state EXCEPT ![cur] = "Densified"]
            /\ line_with_vertices' =
                   add_vertices_to_line(lines[cur], max_segment_length)
            /\ pc' = pc
    /\ UNCHANGED <<features, lines, max_snap_distance, max_segment_length, idx,
                   cur, snapped_points, snapped_lines, geometry, is_valid,
                   output, log, attempts>>

\* Line 85 of a direct call.
CallReturn ==
    /\ pc = "call"
    /\ state[cur] = "Snapping"
    /\ Len(snapped_points) = Len(line_with_vertices)
    /\ snapped_lines' = <<SnapReturn(lines[cur], snapped_points)>>
    /\ pc' = "returned"
    /\ UNCHANGED <<features, lines, max_snap_distance, max_segment_length, idx,
                   cur, state, line_with_vertices, snapped_points, geometry,
                   is_valid, output, log, attempts>>

----------------------------------------------------------------------------
(* Specifications                                                          *)

Next ==
    \/ ReadInputs
    \/ BuildIndex
    \/ Densify
    \/ BeginSnapping
    \/ SnapVertex
    \/ Finish
    \/ AssignGeometry
    \/ Validate
    \/ Save

Spec == Init /\ [][Next]_vars

\* main runs its statements one after the other until it returns.
FairSpec == Spec /\ WF_vars(Next)

NextSnap == CallDensify \/ BeginSnapping \/ SnapVertex \/ CallReturn

SnapSpec == InitSnap /\ [][NextSnap]_vars

NextDensify == CallDensify

DensifySpec == InitDensify /\ [][NextDensify]_vars

----------------------------------------------------------------------------
(* Properties of add_vertices_to_line, under DensifySpec                   *)

Densified == pc = "call" /\ state[1] = "Densified"

\* Every pair of consecutive points of coords is at squared distance d2.
EvenlySpaced(coords, d2) ==
    \A k \in 1..(Len(coords) - 1) : Dist2(coords[k], coords[k + 1]) = d2

Scenario1 ==
    Densified /\ lines[1] = Scenario1Line
              /\ max_segment_length = R(DefaultMaxSegmentLength)

\* C5, as stated: the straight 2-point line of length 100 densified with
\* max_segment_length = 10 has exactly 11 points, consecutive ones exactly
\* 10 apart.
C5_Scenario1_Stated ==
    Scenario1 => /\ Len(line_with_vertices) = 11
                 /\ EvenlySpaced(line_with_vertices, RSq(R(10)))

\* C5, amended: the straight 2-point line of length 100 densified with
\* max_segment_length = 10 has exactly 12 points (10 inserted ones),
\* consecutive ones exactly 100/11 apart.
C5_Scenario1_Amended ==
    Scenario1 => /\ Len(line_with_vertices) = 12
                 /\ line_with_vertices[1] = P(0, 0)
                 /\ line_with_vertices[12] = P(100, 0)
                 /\ EvenlySpaced(line_with_vertices, RSq(Rat(100, 11)))

C5_Witness == Scenario1 /\ Len(line_with_vertices) > 2

\* The least place after that of a[i - 1] where b holds a[i], searching
\* greedily from the left; Len(b) + 1 when there is none.
RECURSIVE PlaceIn(_, _, _)
PlaceIn(a, b, i) ==
    LET prev  == IF i = 1 THEN 0 ELSE PlaceIn(a, b, i - 1)
        found == {j \in (prev + 1)..Len(b) : b[j] = a[i]}
    IN  IF found = {} THEN Len(b) + 1
        ELSE CHOOSE j \in found : \A k \in found : j <= k

\* a is a subsequence of b.
InOrderIn(a, b) == PlaceIn(a, b, Len(a)) <= Len(b)

\* C6: for a line of at least 2 points and max_segment_length > 0, the
\* densified line has at least as many points as the input, the same first
\* and last point, and holds every input point, in the input's order.
C6_NonReduction ==
    (Densified /\ Len(lines[1]) >= 2) =>
        /\ Len(line_with_vertices) >= Len(lines[1])
        /\ line_with_vertices[1] = lines[1][1]
        /\ line_with_vertices[Len(line_with_vertices)] = lines[1][Len(lines[1])]
        /\ InOrderIn(lines[1], line_with_vertices)

\* A 3-point line whose first segment was divided and whose last was not.
C6_Witness ==
    /\ Densified
    /\ Len(lines[1]) = 3
    /\ Len(line_with_vertices) > 3
    /\ line_with_vertices[Len(line_with_vertices) - 1] = lines[1][2]
    /\ lines[1][1] # lines[1][3]

\* The number of points the claim gives a segment of squared length len2:
\* none up to m, else the n with n * m <= length < (n + 1) * m.
ClaimedInserted(len2, m) ==
    IF RLe(len2, RSq(m)) THEN 0
    ELSE CHOOSE n \in 1..(len2[1] * m[2] * m[2]) :
             /\ RLe(RMul(RSq(R(n)), RSq(m)), len2)
             /\ RLt(len2, RMul(RSq(R(n + 1)), RSq(m)))

\* Where input point i must sit in the densified line, by the claim.
RECURSIVE ClaimedPlace(_, _, _)
ClaimedPlace(coords, m, i) ==
    IF i = 1 THEN 1
    ELSE ClaimedPlace(coords, m, i - 1) + 1
         + ClaimedInserted(Dist2(coords[i - 1], coords[i]), m)

\* C10: no segment of the densified line is longer than
\* max_segment_length; an input segment of length L > max_segment_length
\* holds exactly floor(L / max_segment_length) inserted points which split
\* it into equal parts, and a segment of length <= max_segment_length holds
\* none.
C10_SegmentBound ==
    (Densified /\ Len(lines[1]) >= 2) =>
        LET in  == lines[1]
            m   == max_segment_length
            out == line_with_vertices
        IN  /\ \A k \in 1..(Len(out) - 1) :
                   RLe(Dist2(out[k], out[k + 1]), RSq(m))
            /\ Len(out) = ClaimedPlace(in, m, Len(in))
            /\ \A i \in 2..Len(in) :
                   LET len2 == Dist2(in[i - 1], in[i])
                       n    == ClaimedInserted(len2, m)
                       at   == ClaimedPlace(in, m, i - 1)
                   IN  /\ out[at] = in[i - 1]
                       /\ out[at + n + 1] = in[i]
                       /\ \A j \in 0..n :
                              Dist2(out[at + j], out[at + j + 1])
                                  = RDiv(len2, RSq(R(n + 1)))

\* A line with a segment longer than max_segment_length but shorter than
\* twice it (one point inserted), and one of exactly max_segment_length.
C10_Witness ==
    /\ Densified
    /\ Len(lines[1]) = 3
    /\ Dist2(lines[1][2], lines[1][3]) = RSq(max_segment_length)
    /\ RLt(RSq(max_segment_length), Dist2(lines[1][1], lines[1][2]))
    /\ Len(line_with_vertices) = 4

----------------------------------------------------------------------------
(* Properties of snap_to_nearest_edge, under SnapSpec                      *)

\* C3: the point put out for a vertex p of the densified line is p itself
\* or a point at distance at most max_snap_distance from p, and when an
\* examined edge's nearest point is at distance exactly max_snap_distance
\* the point put out is such a nearest point within the threshold.
C3_SnapDistanceGate ==
    \A k \in 1..Len(snapped_points) :
        LET p  == line_with_vertices[k]
            s  == snapped_points[k]
            d2 == RSq(max_snap_distance)
            c  == Candidates(p, features, idx)
        IN  /\ s = p \/ RLe(Dist2(p, s), d2)
            /\ (\E q \in c : Dist2(p, q) = d2) =>
                   (s \in c /\ RLe(Dist2(p, s), d2))

\* A vertex moved by exactly max_snap_distance > 0 and a vertex left in
\* place because its nearest edge is farther than that.
C3_Witness ==
    /\ pc = "call"
    /\ Len(snapped_points) = 2
    /\ snapped_points[1] # line_with_vertices[1]
    /\ Dist2(snapped_points[1], line_with_vertices[1]) = RSq(max_snap_distance)
    /\ snapped_points[2] = line_with_vertices[2]
    /\ \E q \in Candidates(line_with_vertices[2], features, idx) :
           RLt(RSq(max_snap_distance), Dist2(line_with_vertices[2], q))

----------------------------------------------------------------------------
(* Properties of safe_snap_to_nearest_edge and main, under Spec / FairSpec *)

Terminal == {"Valid", "Fallback"}

\* C1, as stated: safe_snap_to_nearest_edge never returns a line of fewer
\* than 2 points, and a line whose processing failed at any stage is
\* returned exactly as it was put in.
C1_FallbackSafety_Stated ==
    \A i \in 1..Len(snapped_lines) :
        /\ Len(snapped_lines[i]) >= 2
        /\ state[i] = "Fallback" => snapped_lines[i] = lines[i]

\* C1, amended: for an input line of at least 2 points
\* safe_snap_to_nearest_edge never returns a line of fewer than 2 points;
\* and every line whose processing failed at any stage, a line without
\* points included, is returned exactly as it was put in.
C1_FallbackSafety_Amended ==
    \A i \in 1..Len(snapped_lines) :
        /\ Len(lines[i]) >= 2 => Len(snapped_lines[i]) >= 2
        /\ state[i] = "Fallback" => snapped_lines[i] = lines[i]

\* A valid line of two distinct points whose candidate was rejected after
\* the snapping loop ran, beside a line whose densification raised.
C1_Witness ==
    \E i, j \in 1..Len(snapped_lines) :
        /\ state[i] = "Fallback" /\ attempts[i] = 1
        /\ IsValid(LineString(lines[i])) /\ Len(lines[i]) >= 2
        /\ snapped_lines[i] = lines[i]
        /\ state[j] = "Fallback" /\ attempts[j] = 0

\* What a batch of the one line with result r emits for it.
AloneEmitted(r) ==
    IF IsValid(LineString(r)) THEN LineString(r)
    ELSE FixGeometries(<<LineString(r)>>)[1]

\* r is a result safe_snap_to_nearest_edge can give for line, whatever else
\* is in the batch.
OwnResult(line, r) ==
    \/ r = line
    \/ /\ ~AddVerticesRaises(line)
       /\ LET dense == add_vertices_to_line(line, max_segment_length)
          IN  /\ Len(r) = Len(dense)
              /\ \A k \in 1..Len(dense) :
                     r[k] \in SnapChoices(dense[k], features, idx, max_snap_distance)
              /\ ~Rejected(r)

\* Two geometries that are written out alike: equal, or both empty.
SameGeometry(g, h) == g = h \/ (IsEmpty(g) /\ IsEmpty(h))

\* C2: the geometry emitted for a line B is what B gets when processed on
\* its own, whatever the other lines of the batch do: the result of
\* safe_snap_to_nearest_edge for B depends on B alone, and the batch emits
\* for B what it would emit for B alone.
C2_BatchIsolation ==
    pc = "done" =>
        \A b \in 1..Len(lines) :
            /\ OwnResult(lines[b], snapped_lines[b])
            /\ SameGeometry(output[b].geometry, AloneEmitted(snapped_lines[b]))

\* C4: every geometry the batch emits for an input line is a valid line
\* (a rejected candidate was repaired or replaced by the original).
C4_NoInvalidLineEmitted ==
    pc = "done" =>
        \A i \in 1..Len(lines) :
            /\ output[i].geometry.kind = "LineString"
            /\ IsValid(output[i].geometry)

\* C7: with an empty feature set the run fails before any per-line work:
\* no index is built, no line leaves Pending, nothing is returned by
\* safe_snap_to_nearest_edge and no row is emitted; the failure is logged.
C7_EmptyFeatureSetAborts ==
    Len(features) = 0 =>
        /\ pc \in {"read", "failed"}
        /\ pc = "failed" => log = <<"Processing failed">>
        /\ idx = {}
        /\ snapped_lines = <<>>
        /\ output = <<>>
        /\ \A i \in 1..Len(lines) : state[i] = "Pending" /\ attempts[i] = 0

C7_Witness == Len(features) = 0 /\ pc = "failed" /\ Len(lines) = MaxBatch

\* The only per-line tag of an emitted row.
Indicator(i) == output[i].is_valid

\* C8: two lines that ended in different terminal states (candidate
\* accepted, original substituted) carry different indicators in the
\* emitted rows.
C8_OutcomeObservable ==
    pc = "done" =>
        \A i, j \in 1..Len(lines) :
            state[i] # state[j] => Indicator(i) # Indicator(j)

\* The moves of a line the claim allows: along Pending, Densified,
\* Snapping, then Valid or Fallback, or straight to Fallback on a failure.
Allowed(s, t) ==
    \/ s = t
    \/ s = "Pending" /\ t = "Densified"
    \/ s = "Densified" /\ t = "Snapping"
    \/ s = "Snapping" /\ t \in Terminal
    \/ s \notin Terminal /\ t = "Fallback"

\* C9: a line handed to safe_snap_to_nearest_edge moves only along
\* Pending, Densified, Snapping and then Valid or Fallback (a failure moves
\* it straight to Fallback), it eventually reaches Valid or Fallback, a
\* line in Valid or Fallback never changes state again, and the snapping
\* loop is entered at most once per line.
C9_LineStateMachine ==
    /\ [][\A i \in 1..Len(lines) : Allowed(state[i], state'[i])]_vars
    /\ [][\A i \in 1..Len(lines) :
              state[i] \in Terminal => state'[i] = state[i]]_vars
    /\ [](\A i \in 1..Len(lines) :
              /\ attempts[i] <= 1
              /\ state[i] = "Valid" => attempts[i] = 1)
    /\ \A i \in 1..MaxBatch :
           [](pc = "snap" /\ cur = i /\ i <= Len(lines)
                  => <>(i <= Len(lines) /\ state[i] \in Terminal))

\* A finished batch with one line in each terminal state.
C9_Witness ==
    /\ pc = "done"
    /\ \E i, j \in 1..Len(lines) :
           /\ state[i] = "Valid" /\ attempts[i] = 1
           /\ state[j] = "Fallback" /\ attempts[j] = 1

====
